---- MODULE Spec2Model ----
(***************************************************************************)
(* Deployment pipeline of DropDeploy: the entity store (Project and        *)
(* Deployment rows), the BullMQ deployment queue, the worker runs of       *)
(* DeploymentService.buildAndDeploy and the container engine state they    *)
(* drive.  Every await of buildAndDeploy is one step of a run, so that     *)
(* concurrent runs interleave exactly at the code's suspension points.     *)
(***************************************************************************)
EXTENDS Integers, Sequences, FiniteSets, TLC

\* ------------------------------------------------------------------ bounds
MaxDeployments == 2
MaxJobs == 2
MaxRuns == 3
MaxPortOffset == 0
MaxLen == 4
MaxCommits == 2
MaxChunks == 22
MaxFrames == 2
MaxPayload == 2

\* ------------------------------------------------------- program constants
PortBase == 8000
PortRange == 2000
Attempts == 3
Concurrency == 5
ExecTimeoutMs == 30000
MemoryLimitBytes == 536870912
CpuShares == 1024
TailLines == 20

NULL == "NULL"
SET == "SET"

Users == {"u1", "u2"}

\* Project rows.  The third project has no repository URL
\* (Project.githubUrl is nullable).
ProjectTable ==
  [p1 |-> [id |-> "p1", userId |-> "u1", slug |-> "site", githubUrl |-> "https://git.example.test/u/site.git", type |-> "STATIC"],
   p2 |-> [id |-> "p2", userId |-> "u2", slug |-> "api", githubUrl |-> "https://git.example.test/u/api.git", type |-> "DJANGO"],
   p3 |-> [id |-> "p3", userId |-> "u1", slug |-> "blank", githubUrl |-> "", type |-> "NODEJS"]]

ProjectIds == DOMAIN ProjectTable

\* `dropdeploy-${slug}`
containerNameOf(slug) ==
  CASE slug = "site" -> "dropdeploy-site"
    [] slug = "api" -> "dropdeploy-api"
    [] slug = "blank" -> "dropdeploy-blank"

\* CONTAINER_PORTS[projectType] ?? 3000
CONTAINER_PORTS(projectType) ==
  CASE projectType = "STATIC" -> 80
    [] projectType = "NODEJS" -> 3000
    [] projectType = "NEXTJS" -> 3000
    [] projectType = "DJANGO" -> 8000
    [] OTHER -> 3000

\* An id no project row ever had.
GhostProject == "p0"

\* Values of Math.floor(Math.random() * range) the model draws: the largest
\* one, range - 1, and the MaxPortOffset values below it.
RandomDraws == (PortRange - 1 - MaxPortOffset)..(PortRange - 1)

\* base + Math.floor(Math.random() * range): no check that the port is free.
findAvailablePort(r) == PortBase + r

\* Host ports findAvailablePort can return.
Ports == {findAvailablePort(r) : r \in RandomDraws}

BuildSteps == {"CLONING", "BUILDING_IMAGE", "STARTING"}

VARIABLES
  projects,     \* ids of the Project rows in the store
  deployments,  \* Deployment rows, a function from the ids in the store
  nextId,       \* next fresh deployment id
  jobs,         \* the queue: a sequence of job records
  run,          \* per job, the position and locals of its buildAndDeploy run
  containers,   \* container engine: per container name (one per slug)
  images,       \* container engine: slugs with an image <prefix>/<slug>:latest
  started,      \* number of buildAndDeploy invocations so far
  lastCreate,   \* outcome of createDeployment when the latest step was a call of it
  lastRun,      \* outcome of buildAndDeploy when the latest step ended a run
  terminal,     \* the terminal request in progress: route, command gateway, exec
  repo,         \* the work directory of a project and its remote
  imageBuild,   \* a DockerService.buildImage call: build stream, log, outcome
  logRead       \* a getContainerLogs call: log buffer, offset, the two buffers

\* The variables of the deployment pipeline.
pipeline == <<projects, deployments, nextId, jobs, run, containers, images, started,
              lastCreate, lastRun>>

\* The calls of the container engine's client that are followed step by step.
engineCalls == <<imageBuild, logRead>>

\* The variables of the other services, which the pipeline never touches.
others == <<terminal, repo, imageBuild, logRead>>

vars == <<projects, deployments, nextId, jobs, run, containers, images, started,
          lastCreate, lastRun, terminal, repo, imageBuild, logRead>>

\* ------------------------------------------------------------ entity store
NewRow(projectId, status) ==
  [projectId |-> projectId, status |-> status, buildStep |-> NULL,
   containerPort |-> {}, subdomain |-> NULL, logs |-> NULL,
   startedAt |-> NULL, completedAt |-> NULL]

\* prisma.deployment.update applies exactly the fields of data.
Patch(row, data) ==
  [f \in DOMAIN row |-> IF f \in DOMAIN data THEN data[f] ELSE row[f]]

\* Mutant of SubdomainUnique: the subdomain column carries no unique constraint.
SubdomainUnique_Absent(rows, id, data) == TRUE

\* Unique constraint of the subdomain column.
SubdomainUnique(rows, id, data) ==
  ("subdomain" \in DOMAIN data /\ data.subdomain # NULL)
    => \A o \in DOMAIN rows : o # id => rows[o].subdomain # data.subdomain

\* update throws when the row is absent or the write breaks uniqueness.
UpdateThrows(rows, id, data) ==
  \/ id \notin DOMAIN rows
  \/ ~SubdomainUnique(rows, id, data)

update(rows, id, data) ==
  [rows EXCEPT ![id] = Patch(rows[id], data)]

clearSubdomainForOtherDeployments(rows, projectId, subdomain, excludeDeploymentId) ==
  [i \in DOMAIN rows |->
     IF /\ rows[i].projectId = projectId
        /\ rows[i].subdomain = subdomain
        /\ i # excludeDeploymentId
     THEN [rows[i] EXCEPT !.subdomain = NULL]
     ELSE rows[i]]

\* ------------------------------------------------------------------- queue
NewJob(deploymentId, projectId) ==
  [deploymentId |-> deploymentId, projectId |-> projectId,
   state |-> "waiting", attemptsMade |-> 0]

IdleRun ==
  [pc |-> "idle", project |-> NULL, imageName |-> NULL, hostPort |-> {}, err |-> NULL]

\* deploymentQueueAdapter.add: appends a job with the default job options.
add(deploymentId, projectId) ==
  /\ jobs' = Append(jobs, NewJob(deploymentId, projectId))
  /\ run' = [j \in 1..(Len(jobs) + 1) |-> IF j <= Len(jobs) THEN run[j] ELSE IdleRun]

\* Outcomes of queue.add: it resolves, or rejects with an error.  cause is
\* what went wrong (the backend refused the connection, or something else);
\* code, message and class are what the error object carries: a refused
\* connection surfaces as an errno error, as an error that only names
\* ECONNREFUSED in its message, or as an AggregateError of the attempts.
QueueErrors ==
  { [rejected |-> TRUE, cause |-> "connection", code |-> "ECONNREFUSED",
     messageHasECONNREFUSED |-> TRUE, aggregate |-> FALSE],
    [rejected |-> TRUE, cause |-> "connection", code |-> NULL,
     messageHasECONNREFUSED |-> TRUE, aggregate |-> FALSE],
    [rejected |-> TRUE, cause |-> "connection", code |-> NULL,
     messageHasECONNREFUSED |-> FALSE, aggregate |-> TRUE],
    [rejected |-> TRUE, cause |-> "other", code |-> "EOTHER",
     messageHasECONNREFUSED |-> FALSE, aggregate |-> FALSE] }

Resolved ==
  [rejected |-> FALSE, cause |-> NULL, code |-> NULL,
   messageHasECONNREFUSED |-> FALSE, aggregate |-> FALSE]

QueueOutcomes == {Resolved} \cup QueueErrors

\* Mutant of isConnectionError: only the errno code is looked at.
isConnectionError_CodeOnly(err) == err.code = "ECONNREFUSED"

isConnectionError(err) ==
  \/ err.code = "ECONNREFUSED"
  \/ err.messageHasECONNREFUSED
  \/ err.aggregate

\* ---------------------------------------------------------------- Init
NoContainer ==
  [exists |-> FALSE, running |-> FALSE, hostPort |-> {}, image |-> NULL, cid |-> 0,
   name |-> NULL, containerPort |-> 0, memory |-> 0, cpuShares |-> 0]

\* lastCreate when the latest step was not a createDeployment call.
NoCall == [result |-> "none", deploymentId |-> 0]

\* lastCreate after a createDeployment call that ended with result;
\* deploymentId is the row it returned (0 when it returned none).
Called(result, deploymentId) == [result |-> result, deploymentId |-> deploymentId]

\* lastRun when the latest step did not end a buildAndDeploy run.
NoRun == [job |-> 0, result |-> "none", err |-> NULL, thrown |-> NULL]

\* Project rows in the store at start.
InitialProjects == {"p1", "p3"}

\* Branches of the remote, and a branch name the remote does not have.
RemoteBranches == {"main", "dev"}

Branches == RemoteBranches \cup {"gone"}

\* What a branch of the remote has committed as Dockerfile: nothing, or one of
\* two contents.
FileContents == {"none", "a", "b"}

\* The Dockerfile buildImage writes into the work directory.
Template == "T"

\* The work directory <PROJECTS_DIR>/<slug> and its remote.  tip and file are
\* the remote's branches (latest commit, committed Dockerfile); exists tells
\* that <workDir>/.git is there, shallow that .git/shallow is; refs are the
\* origin/<branch> refs and local the local branches (0: none); head, commit
\* and wt are the checked-out branch, its commit and the Dockerfile of the
\* working tree.  last and prev record the two latest ensureRepo calls and
\* between tells that something happened to the remote or the tree since.
NoCallYet ==
  [called |-> FALSE, branch |-> NULL, existed |-> FALSE, cloned |-> FALSE,
   net |-> FALSE, ok |-> FALSE, clean |-> FALSE, commit |-> 0, wt |-> "none"]

NoRepo ==
  [tip |-> [b \in RemoteBranches |-> 1], file |-> [b \in RemoteBranches |-> "none"],
   exists |-> FALSE, shallow |-> FALSE,
   refs |-> [b \in RemoteBranches |-> 0], local |-> [b \in RemoteBranches |-> 0],
   head |-> NULL, commit |-> 0, wt |-> "none",
   last |-> NoCallYet, prev |-> NoCallYet, between |-> FALSE]

\* imageBuild when no buildImage call is followed.
NoBuild ==
  [pc |-> "idle", project |-> NULL, events |-> << >>, transportError |-> FALSE,
   tagged |-> FALSE, output |-> << >>, buildLog |-> << >>,
   result |-> "none", msg |-> NULL, tail |-> << >>]

\* logRead when no getContainerLogs call is followed.
NoLogRead ==
  [pc |-> "idle", frames |-> << >>, buf |-> << >>, offset |-> 0,
   stdout |-> << >>, stderr |-> << >>, fallback |-> FALSE,
   stdoutText |-> << >>, stderrText |-> << >>, noLogs |-> FALSE]

\* terminal when no terminal request was made.
NoRequest ==
  [pc |-> "idle", via |-> "none", command |-> << >>, container |-> NULL,
   auth |-> NULL, projectId |-> NULL, status |-> 0,
   calls |-> << >>, execCmd |-> << >>,
   timer |-> "unset", timeoutS |-> 0, destroyed |-> FALSE,
   ended |-> FALSE, inspected |-> FALSE, errored |-> FALSE,
   settled |-> "none", error |-> NULL, exitCode |-> NULL, settleCalls |-> 0]

Init ==
  /\ projects = InitialProjects
  /\ deployments = << >>
  /\ nextId = 1
  /\ jobs = << >>
  /\ run = << >>
  /\ containers = [p \in ProjectIds |-> NoContainer]
  /\ images = {}
  /\ started = 0
  /\ lastCreate = NoCall
  /\ lastRun = NoRun
  /\ terminal = NoRequest
  /\ repo = NoRepo
  /\ imageBuild = NoBuild
  /\ logRead = NoLogRead

\* ------------------------------------------------------ createDeployment
\* queue.add is reached only by a call that passes the project checks.
QueueResults(projectId, userId) ==
  IF projectId \in projects /\ ProjectTable[projectId].userId = userId
  THEN QueueOutcomes
  ELSE {Resolved}

\* Mutant of createDeployment: the owner of the project is not compared with
\* the caller.
createDeployment_NoOwnerCheck(projectId, userId, q) ==
  /\ nextId <= MaxDeployments
  /\ IF projectId \notin projects
     THEN /\ lastCreate' = Called("NotFound", 0)
          /\ lastRun' = NoRun
          /\ UNCHANGED <<projects, deployments, nextId, jobs, run, containers, images, started>>
     ELSE
       /\ deployments' = (nextId :> NewRow(projectId, "QUEUED")) @@ deployments
       /\ nextId' = nextId + 1
       /\ IF ~q.rejected
          THEN /\ Len(jobs) < MaxJobs
               /\ add(nextId, projectId)
               /\ lastCreate' = Called("returned", nextId)
          ELSE /\ UNCHANGED <<jobs, run>>
               /\ lastCreate' = IF isConnectionError(q)
                                 THEN Called("returned", nextId)
                                 ELSE Called("threw", 0)
       /\ lastRun' = NoRun
       /\ UNCHANGED <<projects, containers, images, started>>

\* q is the outcome of queue.add.
createDeployment(projectId, userId, q) ==
  /\ nextId <= MaxDeployments
  /\ IF projectId \notin projects \/ ProjectTable[projectId].userId # userId
     THEN /\ lastCreate' = Called("NotFound", 0)
          /\ lastRun' = NoRun
          /\ UNCHANGED <<projects, deployments, nextId, jobs, run, containers, images, started>>
     ELSE
       /\ deployments' = (nextId :> NewRow(projectId, "QUEUED")) @@ deployments
       /\ nextId' = nextId + 1
       /\ IF ~q.rejected
          THEN /\ Len(jobs) < MaxJobs
               /\ add(nextId, projectId)
               /\ lastCreate' = Called("returned", nextId)
          ELSE /\ UNCHANGED <<jobs, run>>
               /\ lastCreate' = IF isConnectionError(q)
                                 THEN Called("returned", nextId)
                                 ELSE Called("threw", 0)
       /\ lastRun' = NoRun
       /\ UNCHANGED <<projects, containers, images, started>>

\* ------------------------------------------------------------ delete project
\* DELETE /api/projects/:id -> ProjectService.delete: ownership check, then
\* the project row is deleted together with its deployment rows.
delete(projectId, userId) ==
  /\ projectId \in projects
  /\ ProjectTable[projectId].userId = userId
  /\ projects' = projects \ {projectId}
  /\ deployments' = [i \in {k \in DOMAIN deployments : deployments[k].projectId # projectId}
                       |-> deployments[i]]
  /\ UNCHANGED <<nextId, jobs, run, containers, images, started>>
  /\ lastCreate' = NoCall
  /\ lastRun' = NoRun

\* A job for an existing row is submitted again (operator re-submission, or
\* the queue's at-least-once redelivery).
Resubmit(deploymentId) ==
  /\ deploymentId \in DOMAIN deployments
  /\ Len(jobs) < MaxJobs
  /\ add(deploymentId, deployments[deploymentId].projectId)
  /\ UNCHANGED <<projects, deployments, nextId, containers, images, started>>
  /\ lastCreate' = NoCall
  /\ lastRun' = NoRun

\* ------------------------------------------------------------------ worker
Active == {k \in DOMAIN jobs : jobs[k].state = "active"}

\* The worker takes a waiting job and calls buildAndDeploy(job.data.deploymentId).
processJob(j) ==
  /\ jobs[j].state = "waiting"
  /\ Cardinality(Active) < Concurrency
  /\ started < MaxRuns
  /\ started' = started + 1
  /\ jobs' = [jobs EXCEPT ![j].state = "active"]
  /\ run' = [run EXCEPT ![j] = [IdleRun EXCEPT !.pc = "find"]]
  /\ UNCHANGED <<projects, deployments, nextId, containers, images>>
  /\ lastCreate' = NoCall
  /\ lastRun' = NoRun

\* buildAndDeploy returned: the job is completed.
Complete(j) ==
  /\ jobs' = [jobs EXCEPT ![j].state = "completed"]
  /\ run' = [run EXCEPT ![j] = IdleRun]
  /\ lastRun' = [job |-> j, result |-> "completed", err |-> NULL, thrown |-> NULL]

\* Mutant of FailAttempt: the job is retried while the attempts made do not
\* exceed Attempts, one attempt too many.
FailAttempt_OneMore(j, err, thrown) ==
  /\ jobs' = [jobs EXCEPT ![j] =
                [@ EXCEPT !.attemptsMade = jobs[j].attemptsMade + 1,
                          !.state = IF jobs[j].attemptsMade + 1 <= Attempts
                                    THEN "waiting" ELSE "failed"]]
  /\ run' = [run EXCEPT ![j] = IdleRun]
  /\ lastRun' = [job |-> j, result |-> "threw", err |-> err, thrown |-> thrown]

\* buildAndDeploy threw: processJob rethrows and the queue counts the attempt;
\* the job waits for another attempt while fewer than Attempts were made.
\* err is the error the catch clause caught (NULL when the throw came from
\* outside the try block), thrown the error that left buildAndDeploy.
FailAttempt(j, err, thrown) ==
  /\ jobs' = [jobs EXCEPT ![j] =
                [@ EXCEPT !.attemptsMade = jobs[j].attemptsMade + 1,
                          !.state = IF jobs[j].attemptsMade + 1 < Attempts
                                    THEN "waiting" ELSE "failed"]]
  /\ run' = [run EXCEPT ![j] = IdleRun]
  /\ lastRun' = [job |-> j, result |-> "threw", err |-> err, thrown |-> thrown]

\* The run goes on with locals r.
Continue(j, r) ==
  /\ run' = [run EXCEPT ![j] = r]
  /\ lastRun' = NoRun

Goto(j, pc) == Continue(j, [run[j] EXCEPT !.pc = pc])

\* A step inside the try block throws: control goes to the catch clause.
Throw(j, e) == Continue(j, [run[j] EXCEPT !.pc = "catch", !.err = e])

\* Prisma error codes of a failing update: P2025 record not found, P2002
\* unique constraint.
UpdateError(rows, id) == IF id \notin DOMAIN rows THEN "P2025" ELSE "P2002"

BuildingData == [status |-> "BUILDING", buildStep |-> "CLONING", startedAt |-> SET]

\* Mutant of DeployedData: the DEPLOYED write leaves containerPort out.
DeployedData_NoPort(containerPort, slug) ==
  [status |-> "DEPLOYED", buildStep |-> NULL, subdomain |-> slug, completedAt |-> SET]

DeployedData(containerPort, slug) ==
  [status |-> "DEPLOYED", buildStep |-> NULL, containerPort |-> {containerPort},
   subdomain |-> slug, completedAt |-> SET]

FailedData == [status |-> "FAILED", buildStep |-> NULL, completedAt |-> SET]

NoUrlFailedData == [status |-> "FAILED"]

\* An awaited deploymentRepo.update inside the try block.
TryUpdate(j, data, nextpc) ==
  LET d == jobs[j].deploymentId IN
  IF UpdateThrows(deployments, d, data)
  THEN Throw(j, UpdateError(deployments, d)) /\ UNCHANGED deployments
  ELSE deployments' = update(deployments, d, data) /\ Goto(j, nextpc)

\* ----------------------------------------------------------- buildAndDeploy
\* Mutant of findByIdWithProject: a missing row is reported as an error.
findByIdWithProject_Throws(j) ==
  LET d == jobs[j].deploymentId IN
  /\ run[j].pc = "find"
  /\ IF d \notin DOMAIN deployments
     THEN FailAttempt(j, NULL, "NotFound")
     ELSE /\ Continue(j, [run[j] EXCEPT
                 !.project = deployments[d].projectId,
                 !.pc = IF ProjectTable[deployments[d].projectId].githubUrl = ""
                        THEN "markNoUrlFailed" ELSE "markCloning"])
          /\ UNCHANGED jobs
  /\ UNCHANGED <<projects, deployments, nextId, containers, images, started>>
  /\ lastCreate' = NoCall

\* const deployment = await findByIdWithProject(id); if (!deployment) return;
\* otherwise the project of the row decides between the no-URL exit and the
\* pipeline.
findByIdWithProject(j) ==
  LET d == jobs[j].deploymentId IN
  /\ run[j].pc = "find"
  /\ IF d \notin DOMAIN deployments
     THEN Complete(j)
     ELSE /\ Continue(j, [run[j] EXCEPT
                 !.project = deployments[d].projectId,
                 !.pc = IF ProjectTable[deployments[d].projectId].githubUrl = ""
                        THEN "markNoUrlFailed" ELSE "markCloning"])
          /\ UNCHANGED jobs
  /\ UNCHANGED <<projects, deployments, nextId, containers, images, started>>
  /\ lastCreate' = NoCall

\* Mutant of markNoUrlFailed: after the FAILED write the run throws, so the
\* queue counts a failed attempt.
markNoUrlFailed_Throws(j) ==
  LET d == jobs[j].deploymentId IN
  /\ run[j].pc = "markNoUrlFailed"
  /\ IF UpdateThrows(deployments, d, NoUrlFailedData)
     THEN /\ FailAttempt(j, NULL, UpdateError(deployments, d))
          /\ UNCHANGED deployments
     ELSE /\ deployments' = update(deployments, d, NoUrlFailedData)
          /\ FailAttempt(j, NULL, "noUrl")
  /\ UNCHANGED <<projects, nextId, containers, images, started>>
  /\ lastCreate' = NoCall

\* if (!project.githubUrl) { update(status FAILED); return }  (outside the try)
markNoUrlFailed(j) ==
  LET d == jobs[j].deploymentId IN
  /\ run[j].pc = "markNoUrlFailed"
  /\ IF UpdateThrows(deployments, d, NoUrlFailedData)
     THEN /\ FailAttempt(j, NULL, UpdateError(deployments, d))
          /\ UNCHANGED deployments
     ELSE deployments' = update(deployments, d, NoUrlFailedData) /\ Complete(j)
  /\ UNCHANGED <<projects, nextId, containers, images, started>>
  /\ lastCreate' = NoCall

markCloning(j) ==
  /\ run[j].pc = "markCloning"
  /\ TryUpdate(j, BuildingData, "ensureRepo")
  /\ UNCHANGED <<projects, nextId, jobs, containers, images, started>>
  /\ lastCreate' = NoCall

\* git.ensureRepo returns the work directory or throws.
ensureRepo(j, ok) ==
  /\ run[j].pc = "ensureRepo"
  /\ IF ok THEN Goto(j, "markBuildingImage") ELSE Throw(j, "ensureRepo")
  /\ UNCHANGED <<projects, deployments, nextId, jobs, containers, images, started>>
  /\ lastCreate' = NoCall

markBuildingImage(j) ==
  /\ run[j].pc = "markBuildingImage"
  /\ TryUpdate(j, [buildStep |-> "BUILDING_IMAGE"], "buildImage")
  /\ UNCHANGED <<projects, nextId, jobs, containers, images, started>>
  /\ lastCreate' = NoCall

BuildOutcomes == {"built", "errorChunk", "noImage"}

\* docker.buildImage: the build stream reports an error chunk, or completes
\* having tagged the image, or completes without producing one; then the
\* image <prefix>/<slug>:latest is inspected.
buildImage(j, outcome) ==
  LET p == run[j].project IN
  /\ run[j].pc = "buildImage"
  /\ outcome \in BuildOutcomes
  /\ IF outcome = "errorChunk"
     THEN Throw(j, "buildImage") /\ UNCHANGED images
     ELSE /\ images' = IF outcome = "built" THEN images \cup {p} ELSE images
          /\ IF p \in images'
             THEN Continue(j, [run[j] EXCEPT !.imageName = p, !.pc = "markStarting"])
             ELSE Throw(j, "noImage")
  /\ UNCHANGED <<projects, deployments, nextId, jobs, containers, started>>
  /\ lastCreate' = NoCall

markStarting(j) ==
  /\ run[j].pc = "markStarting"
  /\ TryUpdate(j, [buildStep |-> "STARTING"], "removeExisting")
  /\ UNCHANGED <<projects, nextId, jobs, containers, images, started>>
  /\ lastCreate' = NoCall

\* runContainer, first part: inspect the image, then stop and remove an
\* existing container of the same name; removed tells whether the engine
\* did so, an error of inspect, stop or remove being swallowed.
removeExisting(j, removed) ==
  LET p == run[j].project IN
  /\ run[j].pc = "removeExisting"
  /\ IF run[j].imageName \notin images
     THEN Throw(j, "imageNotFound") /\ UNCHANGED containers
     ELSE /\ containers' = IF removed THEN [containers EXCEPT ![p] = NoContainer]
                           ELSE containers
          /\ Goto(j, "createContainer")
  /\ UNCHANGED <<projects, deployments, nextId, jobs, images, started>>
  /\ lastCreate' = NoCall

\* Mutant of createContainer: the engine lets a second container take a name
\* that is in use, in place of the first.
createContainer_Replace(j, hostPort) ==
  LET p == run[j].project IN
  /\ run[j].pc = "createContainer"
  /\ hostPort \in Ports
  /\ containers' = [containers EXCEPT ![p] =
                      [exists |-> TRUE, running |-> FALSE, hostPort |-> {hostPort},
                       image |-> run[j].imageName, cid |-> j,
                       name |-> containerNameOf(ProjectTable[p].slug),
                       containerPort |-> CONTAINER_PORTS(ProjectTable[p].type),
                       memory |-> MemoryLimitBytes, cpuShares |-> CpuShares]]
  /\ Continue(j, [run[j] EXCEPT !.hostPort = {hostPort}, !.pc = "startContainer"])
  /\ UNCHANGED <<projects, deployments, nextId, jobs, images, started>>
  /\ lastCreate' = NoCall

\* runContainer, second part: pick a host port and create the container;
\* the engine refuses a name that is in use.
createContainer(j, hostPort) ==
  LET p == run[j].project IN
  /\ run[j].pc = "createContainer"
  /\ hostPort \in Ports
  /\ IF containers[p].exists
     THEN Throw(j, "createContainer") /\ UNCHANGED containers
     ELSE /\ containers' = [containers EXCEPT ![p] =
                              [exists |-> TRUE, running |-> FALSE, hostPort |-> {hostPort},
                               image |-> run[j].imageName, cid |-> j,
                               name |-> containerNameOf(ProjectTable[p].slug),
                               containerPort |-> CONTAINER_PORTS(ProjectTable[p].type),
                               memory |-> MemoryLimitBytes, cpuShares |-> CpuShares]]
          /\ Continue(j, [run[j] EXCEPT !.hostPort = {hostPort}, !.pc = "startContainer"])
  /\ UNCHANGED <<projects, deployments, nextId, jobs, images, started>>
  /\ lastCreate' = NoCall

PortBound(hostPort, except) ==
  \E o \in ProjectIds \ {except} : containers[o].running /\ containers[o].hostPort = hostPort

\* runContainer, last part: container.start() on the container just created;
\* it fails when that container is gone or its host port is already bound.
startContainer(j) ==
  LET p == run[j].project IN
  /\ run[j].pc = "startContainer"
  /\ IF containers[p].exists /\ containers[p].cid = j /\ ~PortBound(containers[p].hostPort, p)
     THEN /\ containers' = [containers EXCEPT ![p].running = TRUE]
          /\ Goto(j, "clearSubdomain")
     ELSE Throw(j, "startContainer") /\ UNCHANGED containers
  /\ UNCHANGED <<projects, deployments, nextId, jobs, images, started>>
  /\ lastCreate' = NoCall

clearSubdomain(j) ==
  LET p == run[j].project IN
  /\ run[j].pc = "clearSubdomain"
  /\ deployments' = clearSubdomainForOtherDeployments(
                      deployments, p, ProjectTable[p].slug, jobs[j].deploymentId)
  /\ Goto(j, "markDeployed")
  /\ UNCHANGED <<projects, nextId, jobs, containers, images, started>>
  /\ lastCreate' = NoCall

markDeployed(j) ==
  LET d == jobs[j].deploymentId
      data == DeployedData(CHOOSE h \in run[j].hostPort : TRUE, ProjectTable[run[j].project].slug)
  IN
  /\ run[j].pc = "markDeployed"
  /\ IF UpdateThrows(deployments, d, data)
     THEN Throw(j, UpdateError(deployments, d)) /\ UNCHANGED <<deployments, jobs>>
     ELSE deployments' = update(deployments, d, data) /\ Complete(j)
  /\ UNCHANGED <<projects, nextId, containers, images, started>>
  /\ lastCreate' = NoCall

\* Mutant of catch: the error is rethrown without the FAILED write.
catch_NoWrite(j) ==
  /\ run[j].pc = "catch"
  /\ FailAttempt(j, run[j].err, run[j].err)
  /\ UNCHANGED <<projects, deployments, nextId, containers, images, started>>
  /\ lastCreate' = NoCall

\* catch (err) { await update(FAILED, buildStep null, completedAt); throw err }
catch(j) ==
  LET d == jobs[j].deploymentId IN
  /\ run[j].pc = "catch"
  /\ IF UpdateThrows(deployments, d, FailedData)
     THEN FailAttempt(j, run[j].err, "P2025:catch") /\ UNCHANGED deployments
     ELSE /\ deployments' = update(deployments, d, FailedData)
          /\ FailAttempt(j, run[j].err, run[j].err)
  /\ UNCHANGED <<projects, nextId, containers, images, started>>
  /\ lastCreate' = NoCall

buildAndDeploy(j) ==
  \/ findByIdWithProject(j)
  \/ markNoUrlFailed(j)
  \/ markCloning(j)
  \/ \E ok \in BOOLEAN : ensureRepo(j, ok)
  \/ markBuildingImage(j)
  \/ \E outcome \in BuildOutcomes : buildImage(j, outcome)
  \/ markStarting(j)
  \/ \E removed \in BOOLEAN : removeExisting(j, removed)
  \/ \E hostPort \in Ports : createContainer(j, hostPort)
  \/ startContainer(j)
  \/ clearSubdomain(j)
  \/ markDeployed(j)
  \/ catch(j)

Next ==
  \/ /\ \E p \in ProjectIds \cup {GhostProject}, u \in Users :
          \E q \in QueueResults(p, u) : createDeployment(p, u, q)
     /\ UNCHANGED others
  \/ /\ \E p \in ProjectIds, u \in Users : delete(p, u)
     /\ UNCHANGED others
  \/ /\ \E j \in DOMAIN jobs : processJob(j)
     /\ UNCHANGED others
  \/ /\ \E j \in DOMAIN jobs : buildAndDeploy(j)
     /\ UNCHANGED others

\* The API and the worker alone: every job comes from createDeployment, so a
\* row has at most one job and reruns of it are the queue's retries.
Spec == Init /\ [][Next]_vars

\* The same system when a job may also be delivered a second time, so that
\* two runs of one deployment id can be in flight together.
NextResubmit ==
  \/ Next
  \/ /\ \E d \in DOMAIN deployments : Resubmit(d)
     /\ UNCHANGED others

SpecResubmit == Init /\ [][NextResubmit]_vars

\* A store with two projects that have a repository URL, of two users.
InitPorts ==
  /\ projects = {"p1", "p2"}
  /\ deployments = << >>
  /\ nextId = 1
  /\ jobs = << >>
  /\ run = << >>
  /\ containers = [p \in ProjectIds |-> NoContainer]
  /\ images = {}
  /\ started = 0
  /\ lastCreate = NoCall
  /\ lastRun = NoRun
  /\ terminal = NoRequest
  /\ repo = NoRepo
  /\ imageBuild = NoBuild
  /\ logRead = NoLogRead

\* The API and the worker with containers of two projects on one host.
SpecPorts == InitPorts /\ [][Next]_vars

\* The store and the queue after createDeployment for a project of u1 and a
\* second delivery of its job: one QUEUED row, two waiting jobs for it.
InitTwice ==
  /\ projects = InitialProjects
  /\ \E p \in InitialProjects :
       /\ deployments = (1 :> NewRow(p, "QUEUED"))
       /\ jobs = <<NewJob(1, p), NewJob(1, p)>>
  /\ nextId = 2
  /\ run = <<IdleRun, IdleRun>>
  /\ containers = [p \in ProjectIds |-> NoContainer]
  /\ images = {}
  /\ started = 0
  /\ lastCreate = NoCall
  /\ lastRun = NoRun
  /\ terminal = NoRequest
  /\ repo = NoRepo
  /\ imageBuild = NoBuild
  /\ logRead = NoLogRead

\* The worker alone, on the jobs that are in the queue.
NextWorker ==
  \/ /\ \E j \in DOMAIN jobs : processJob(j)
     /\ UNCHANGED others
  \/ /\ \E j \in DOMAIN jobs : buildAndDeploy(j)
     /\ UNCHANGED others

\* One job submitted twice and both deliveries run, in any interleaving.
SpecTwice == InitTwice /\ [][NextWorker]_vars

\* ------------------------------------------------------------ worker kill
\* The worker process dies while it runs job j: the run stops where it is,
\* nothing of its catch block runs, and the queue, finding the job stalled,
\* puts it back to waiting.  lastRun.err names the await the run stood at.
kill(j) ==
  /\ jobs[j].state = "active"
  /\ run[j].pc # "idle"
  /\ started < MaxRuns
  /\ jobs' = [jobs EXCEPT ![j].state = "waiting"]
  /\ run' = [run EXCEPT ![j] = IdleRun]
  /\ lastRun' = [job |-> j, result |-> "killed", err |-> run[j].pc, thrown |-> NULL]
  /\ lastCreate' = NoCall
  /\ UNCHANGED <<projects, deployments, nextId, containers, images, started>>

\* The store and the queue after one createDeployment for a project of u1.
InitKill ==
  /\ projects = InitialProjects
  /\ \E p \in InitialProjects :
       /\ deployments = (1 :> NewRow(p, "QUEUED"))
       /\ jobs = <<NewJob(1, p)>>
  /\ nextId = 2
  /\ run = <<IdleRun>>
  /\ containers = [p \in ProjectIds |-> NoContainer]
  /\ images = {}
  /\ started = 0
  /\ lastCreate = NoCall
  /\ lastRun = NoRun
  /\ terminal = NoRequest
  /\ repo = NoRepo
  /\ imageBuild = NoBuild
  /\ logRead = NoLogRead

NextKill ==
  \/ NextWorker
  \/ /\ \E j \in DOMAIN jobs : kill(j)
     /\ UNCHANGED others

\* One job and a worker that can die while it runs it; a worker that is up
\* takes a waiting job and a run that is not killed goes on.
SpecKill ==
  /\ InitKill
  /\ [][NextKill]_vars
  /\ WF_vars((\E j \in DOMAIN jobs : processJob(j)) /\ UNCHANGED others)
  /\ WF_vars((\E j \in DOMAIN jobs : buildAndDeploy(j)) /\ UNCHANGED others)

\* ------------------------------------------------- terminal command gateway
\* Strings are sequences of one-character strings.
WhiteSpace == {" ", "\t"}

\* Characters the commands are made of.
Chars == {"l", "s", "x", ";"} \cup WhiteSpace

\* Every command string of at most MaxLen characters.
Commands == UNION {[1..k -> Chars] : k \in 0..MaxLen}

ALLOWED_COMMANDS ==
  { <<"l", "s">>,
    <<"c", "a", "t">>,
    <<"p", "w", "d">>,
    <<"e", "c", "h", "o">>,
    <<"e", "n", "v">>,
    <<"w", "h", "o", "a", "m", "i">>,
    <<"d", "f">>,
    <<"d", "u">>,
    <<"p", "s">>,
    <<"t", "o", "p">>,
    <<"h", "e", "a", "d">>,
    <<"t", "a", "i", "l">>,
    <<"g", "r", "e", "p">>,
    <<"f", "i", "n", "d">>,
    <<"w", "c">>,
    <<"d", "a", "t", "e">>,
    <<"u", "p", "t", "i", "m", "e">>,
    <<"w", "h", "i", "c", "h">>,
    <<"p", "r", "i", "n", "t", "e", "n", "v">>,
    <<"h", "o", "s", "t", "n", "a", "m", "e">>,
    <<"u", "n", "a", "m", "e">>,
    <<"i", "d">>,
    <<"f", "r", "e", "e">>,
    <<"s", "t", "a", "t">>,
    <<"f", "i", "l", "e">>,
    <<"s", "o", "r", "t">>,
    <<"u", "n", "i", "q">>,
    <<"t", "r">>,
    <<"c", "u", "t">>,
    <<"a", "w", "k">>,
    <<"s", "e", "d">>,
    <<"l", "e", "s", "s">>,
    <<"m", "o", "r", "e">>,
    <<"m", "k", "d", "i", "r">>,
    <<"t", "o", "u", "c", "h">>,
    <<"c", "p">>,
    <<"m", "v">>,
    <<"c", "d">>,
    <<"n", "p", "m">>,
    <<"n", "o", "d", "e">>,
    <<"p", "y", "t", "h", "o", "n">>,
    <<"p", "i", "p">>,
    <<"c", "u", "r", "l">>,
    <<"w", "g", "e", "t">> }

\* String.prototype.trim
RECURSIVE trimStart(_)
trimStart(s) == IF s # << >> /\ Head(s) \in WhiteSpace THEN trimStart(Tail(s)) ELSE s

RECURSIVE trimEnd(_)
trimEnd(s) ==
  IF s # << >> /\ s[Len(s)] \in WhiteSpace THEN trimEnd(SubSeq(s, 1, Len(s) - 1)) ELSE s

trim(s) == trimEnd(trimStart(s))

\* s.split(/\s+/) from the character after the last one consumed: cur is the
\* token being collected, inSep tells that the last character was white space.
RECURSIVE splitFrom(_, _, _)
splitFrom(s, cur, inSep) ==
  IF s = << >> THEN <<cur>>
  ELSE IF Head(s) \in WhiteSpace
       THEN IF inSep THEN splitFrom(Tail(s), cur, TRUE)
            ELSE <<cur>> \o splitFrom(Tail(s), << >>, TRUE)
       ELSE splitFrom(Tail(s), Append(cur, Head(s)), FALSE)

split(s) == splitFrom(s, << >>, FALSE)

\* Mutant of validateCommand: a command is let through when an allowed
\* command is a prefix of it.
validateCommand_Prefix(command) ==
  LET trimmed == trim(command) IN
  IF trimmed = << >> THEN "empty"
  ELSE IF \E a \in ALLOWED_COMMANDS :
            Len(a) <= Len(trimmed) /\ SubSeq(trimmed, 1, Len(a)) = a
       THEN "ok" ELSE "notAllowed"

\* validateCommand: "ok" when it returns, else the error it throws.
validateCommand(command) ==
  LET trimmed == trim(command)
      baseCommand == split(trimmed)[1]
  IN IF trimmed = << >> THEN "empty"
     ELSE IF baseCommand = << >> \/ baseCommand \notin ALLOWED_COMMANDS
          THEN "notAllowed" ELSE "ok"

\* Mutant of Settle: a later resolve or reject replaces the earlier outcome.
Settle_LastWins(t, kind, error, exitCode) ==
  [t EXCEPT !.settled = kind, !.error = error, !.exitCode = exitCode,
            !.settleCalls = @ + 1,
            !.status = IF t.auth = NULL THEN @
                       ELSE IF kind = "resolved" THEN 200 ELSE 400]

\* resolve / reject of the promise a call returned: only the first one
\* settles it, later ones are ignored.  A request that came through the
\* route is answered 200 with the result, 400 with the error.
Settle(t, kind, error, exitCode) ==
  IF t.settled = "none"
  THEN [t EXCEPT !.settled = kind, !.error = error, !.exitCode = exitCode,
                 !.settleCalls = @ + 1,
                 !.status = IF t.auth = NULL THEN @
                            ELSE IF kind = "resolved" THEN 200 ELSE 400]
  ELSE [t EXCEPT !.settleCalls = @ + 1]

\* runInContainer(containerName, command) up to its first await.
runInContainerCall(t, command) == [t EXCEPT !.pc = "resolve", !.execCmd = command]

\* executeCommand(containerName, command) up to its first await.
executeCommandCall(t, containerName, command) ==
  LET c == [t EXCEPT !.via = "executeCommand", !.container = containerName,
                     !.command = command]
      v == validateCommand(command)
  IN IF v # "ok" THEN Settle(c, "rejected", v, NULL)
     ELSE runInContainerCall(c, command)

\* SLASH_COMMANDS: per name, whether it is a host command and what resolve()
\* returns: the shell command, or for the log commands the marker
\* __DOCKER_LOGS__:<n>, kept as the number of lines n.
SLASH_COMMANDS ==
  { [name |-> <<"/", "s", "h", "o", "w", "-", "l", "o", "g", "s">>, hostCommand |-> TRUE,
     resolve |-> << >>, tailLines |-> 500],
    [name |-> <<"/", "t", "a", "i", "l", "-", "l", "o", "g", "s">>, hostCommand |-> TRUE,
     resolve |-> << >>, tailLines |-> 100],
    [name |-> <<"/", "e", "n", "v">>, hostCommand |-> FALSE,
     resolve |-> <<"e", "n", "v", " ", "|", " ", "s", "o", "r", "t">>, tailLines |-> 0],
    [name |-> <<"/", "f", "i", "l", "e", "s">>, hostCommand |-> FALSE,
     resolve |-> <<"l", "s", " ", "-", "l", "a">>, tailLines |-> 0],
    [name |-> <<"/", "h", "e", "l", "p">>, hostCommand |-> FALSE,
     resolve |-> <<"e", "c", "h", "o", " ", "_", "_", "S", "L", "A", "S", "H", "_", "H", "E", "L", "P", "_", "_">>, tailLines |-> 0] }

Help == <<"/", "h", "e", "l", "p">>

\* Slash inputs the model sends: every registered name, one with blanks and
\* an argument, and one that is not registered.
SlashInputs ==
  {c.name : c \in SLASH_COMMANDS}
    \cup { <<" ", "/", "e", "n", "v", " ", " ", "x">>, <<"/", "x">> }

\* executeSlashCommand(containerName, slashInput) up to its first await.
executeSlashCommandCall(t, containerName, slashInput) ==
  LET c == [t EXCEPT !.via = "executeSlashCommand", !.container = containerName,
                     !.command = slashInput]
      name == split(trim(slashInput))[1]
      found == {d \in SLASH_COMMANDS : d.name = name}
      cmd == CHOOSE d \in found : TRUE
  IN IF found = {} THEN Settle(c, "rejected", "unknownSlash", NULL)
     ELSE IF name = Help THEN Settle(c, "resolved", NULL, "0")
     ELSE IF cmd.hostCommand THEN [c EXCEPT !.pc = "logsResolve", !.execCmd = cmd.resolve]
     ELSE runInContainerCall(c, cmd.resolve)

\* Names of the containers a call is made for.
ContainerNames == {"dropdeploy-site"}

executeCommand(containerName, command) ==
  /\ terminal.pc = "idle" /\ terminal.settled = "none"
  /\ terminal' = executeCommandCall(terminal, containerName, command)
  /\ UNCHANGED <<pipeline, repo, engineCalls>>

executeSlashCommand(containerName, slashInput) ==
  /\ terminal.pc = "idle" /\ terminal.settled = "none"
  /\ terminal' = executeSlashCommandCall(terminal, containerName, slashInput)
  /\ UNCHANGED <<pipeline, repo, engineCalls>>

\* resolveContainer: inspect the container of that name; when there is none,
\* list the running containers and take one of the project's image; else throw.
resolveContainer(how) ==
  /\ terminal.pc \in {"resolve", "logsResolve"}
  /\ how \in {"byName", "byImage", "none"}
  /\ LET t == [terminal EXCEPT !.calls =
                 IF how = "byName" THEN Append(@, "inspect")
                 ELSE @ \o <<"inspect", "listContainers">>]
     IN terminal' =
          IF how = "none" THEN Settle([t EXCEPT !.pc = "done"], "rejected", "notFound", NULL)
          ELSE [t EXCEPT !.pc = IF terminal.pc = "resolve" THEN "inspect" ELSE "logs"]
  /\ UNCHANGED <<pipeline, repo, engineCalls>>

\* getContainerLogs: container.logs(...) returns the log buffer or throws;
\* no timer is set on this path.
containerLogs(ok) ==
  /\ terminal.pc = "logs"
  /\ LET t == [terminal EXCEPT !.pc = "done", !.calls = Append(@, "logs")]
     IN terminal' = IF ok THEN Settle(t, "resolved", NULL, "0")
                    ELSE Settle(t, "rejected", "engine", NULL)
  /\ UNCHANGED <<pipeline, repo, engineCalls>>

\* const info = await container.inspect(); if (!info.State.Running) throw
inspectRunning(running) ==
  /\ terminal.pc = "inspect"
  /\ LET t == [terminal EXCEPT !.calls = Append(@, "inspect")]
     IN terminal' = IF running THEN [t EXCEPT !.pc = "exec"]
                    ELSE Settle([t EXCEPT !.pc = "done"], "rejected", "notRunning", NULL)
  /\ UNCHANGED <<pipeline, repo, engineCalls>>

\* container.exec({Cmd: ['/bin/sh', '-c', command], ...})
createExec(ok) ==
  /\ terminal.pc = "exec"
  /\ LET t == [terminal EXCEPT !.calls = Append(@, "exec")]
     IN terminal' = IF ok THEN [t EXCEPT !.pc = "start"]
                    ELSE Settle([t EXCEPT !.pc = "done"], "rejected", "engine", NULL)
  /\ UNCHANGED <<pipeline, repo, engineCalls>>

\* exec.start(...); then the promise is built: the timer is set and the
\* stream handlers are attached.
startExec(ok) ==
  /\ terminal.pc = "start"
  /\ LET t == [terminal EXCEPT !.calls = Append(@, "start")]
     IN terminal' = IF ok THEN [t EXCEPT !.pc = "stream", !.timer = "armed"]
                    ELSE Settle([t EXCEPT !.pc = "done"], "rejected", "engine", NULL)
  /\ UNCHANGED <<pipeline, repo, engineCalls>>

clearTimeout(timer) == IF timer = "armed" THEN "cleared" ELSE timer

\* stream 'end': the timer is cleared and exec.inspect() is awaited.  A timer
\* that is due runs before any later stream event.
streamEnd ==
  /\ terminal.pc = "stream"
  /\ ~terminal.ended
  /\ terminal.timer # "due"
  /\ terminal' = [terminal EXCEPT !.ended = TRUE, !.timer = clearTimeout(@),
                                  !.calls = Append(@, "execInspect")]
  /\ UNCHANGED <<pipeline, repo, engineCalls>>

\* exec.inspect() returned (exit code) or threw (exit code -1): resolve.
endInspect(ok) ==
  /\ terminal.pc = "stream"
  /\ terminal.ended
  /\ ~terminal.inspected
  /\ terminal' = Settle([terminal EXCEPT !.inspected = TRUE],
                        "resolved", NULL, IF ok THEN "ExitCode" ELSE "-1")
  /\ UNCHANGED <<pipeline, repo, engineCalls>>

\* stream 'error': the timer is cleared and the promise rejected.
streamError ==
  /\ terminal.pc = "stream"
  /\ ~terminal.errored
  /\ terminal.timer # "due"
  /\ terminal' = Settle([terminal EXCEPT !.errored = TRUE, !.timer = clearTimeout(@)],
                        "rejected", "stream", NULL)
  /\ UNCHANGED <<pipeline, repo, engineCalls>>

\* EXEC_TIMEOUT_MS have passed since the timer was set.
elapse ==
  /\ terminal.timer = "armed"
  /\ terminal' = [terminal EXCEPT !.timer = "due"]
  /\ UNCHANGED <<pipeline, repo, engineCalls>>

\* The timer callback: stream.destroy(); reject(timed out).
timeout ==
  /\ terminal.timer = "due"
  /\ terminal' = Settle([terminal EXCEPT !.timer = "fired", !.destroyed = TRUE,
                                         !.timeoutS = ExecTimeoutMs \div 1000],
                        "rejected", "timeout", NULL)
  /\ UNCHANGED <<pipeline, repo, engineCalls>>

\* The steps of a call after its first await.
gatewayStep ==
  \/ \E how \in {"byName", "byImage", "none"} : resolveContainer(how)
  \/ \E ok \in BOOLEAN : containerLogs(ok)
  \/ \E running \in BOOLEAN : inspectRunning(running)
  \/ \E ok \in BOOLEAN : createExec(ok)
  \/ \E ok \in BOOLEAN : startExec(ok)
  \/ streamEnd
  \/ \E ok \in BOOLEAN : endInspect(ok)
  \/ streamError
  \/ elapse
  \/ timeout

NextGateway ==
  \/ \E n \in ContainerNames, c \in Commands : executeCommand(n, c)
  \/ \E n \in ContainerNames, c \in SlashInputs : executeSlashCommand(n, c)
  \/ gatewayStep

\* Calls of the command gateway, one at a time.
SpecGateway == Init /\ [][NextGateway]_vars

\* The engine answers every awaited call, the stream emits its events and the
\* event loop runs the timer callback: a step of a call that stays possible
\* is taken.
SpecGatewayFair == SpecGateway /\ WF_vars(gatewayStep)

\* ------------------------------------------------ GitService.ensureRepo
\* A work directory left by a shallow single-branch clone of main, which the
\* refspec and unshallow steps of ensureRepo are written for.
ShallowClone(r) ==
  [r EXCEPT !.exists = TRUE, !.shallow = TRUE,
            !.refs = [b \in RemoteBranches |-> IF b = "main" THEN r.tip[b] ELSE 0],
            !.local = [b \in RemoteBranches |-> IF b = "main" THEN r.tip[b] ELSE 0],
            !.head = "main", !.commit = r.tip["main"], !.wt = r.file["main"]]

\* The working tree differs from the checked-out commit (a changed or an
\* untracked Dockerfile).
Dirty(r) == r.wt # r.file[r.head]

\* git clone <repoUrl> <workDir> -b <branch>: a full clone, all branches
\* fetched, <branch> checked out.
clone(r, branch) ==
  [r EXCEPT !.exists = TRUE, !.shallow = FALSE,
            !.refs = r.tip,
            !.local = [b \in RemoteBranches |-> IF b = branch THEN r.tip[b] ELSE 0],
            !.head = branch, !.commit = r.tip[branch], !.wt = r.file[branch]]

\* git config remote.origin.fetch +refs/heads/*:refs/remotes/origin/* and
\* git fetch origin [--unshallow] --prune
fetch(r) == [r EXCEPT !.refs = r.tip, !.shallow = FALSE]

\* Switching to branch would overwrite a changed or untracked Dockerfile.
Overwrites(r, branch) == Dirty(r) /\ r.file[branch] # r.file[r.head]

\* git checkout <branch> succeeds: the branch is checked out already, or it
\* is a local branch or the name of a branch of origin, and no file of the
\* working tree would be overwritten.
checkoutOk(r, branch) ==
  \/ branch = r.head
  \/ /\ branch \in RemoteBranches
     /\ r.local[branch] # 0 \/ r.refs[branch] # 0
     /\ ~Overwrites(r, branch)

\* A branch switch carries the local changes over.
switch(r, branch) ==
  LET c == IF r.local[branch] = 0 THEN r.refs[branch] ELSE r.local[branch]
  IN [r EXCEPT !.head = branch, !.local[branch] = c, !.commit = c,
               !.wt = IF Dirty(r) THEN r.wt ELSE r.file[branch]]

checkout(r, branch) == IF branch = r.head THEN r ELSE switch(r, branch)

\* git checkout -b <branch> origin/<branch> succeeds: no such local branch
\* yet, origin has it, and no file would be overwritten.
checkoutBranchOk(r, branch) ==
  /\ branch \in RemoteBranches
  /\ r.local[branch] = 0
  /\ r.refs[branch] # 0
  /\ ~Overwrites(r, branch)

checkoutBranch(r, branch) == switch(r, branch)

\* git reset --hard origin/<branch>: the branch and the tracked files are
\* set to origin/<branch>; a file git does not track stays.
reset(r, branch) ==
  [r EXCEPT !.local[branch] = r.refs[branch], !.commit = r.refs[branch],
            !.wt = IF r.file[branch] # "none" THEN r.file[branch] ELSE @]

\* The branch of ensureRepo when <workDir>/.git exists; net tells whether
\* the remote can be reached.  The result is the directory after the call
\* and whether the call returned.
pull(r, branch, net) ==
  IF ~net THEN [dir |-> r, ok |-> FALSE]
  ELSE LET f == fetch(r) IN
       IF checkoutOk(f, branch)
       THEN [dir |-> reset(checkout(f, branch), branch), ok |-> TRUE]
       ELSE IF checkoutBranchOk(f, branch)
       THEN [dir |-> reset(checkoutBranch(f, branch), branch), ok |-> TRUE]
       ELSE [dir |-> f, ok |-> FALSE]

\* The branch of ensureRepo when <workDir>/.git does not exist.
firstClone(r, branch, net) ==
  IF net /\ branch \in RemoteBranches
  THEN [dir |-> clone(r, branch), ok |-> TRUE]
  ELSE [dir |-> r, ok |-> FALSE]

\* ensureRepo(repoUrl, projectSlug, branch)
GitService_ensureRepo(branch, net) ==
  /\ LET res == IF repo.exists THEN pull(repo, branch, net)
                ELSE firstClone(repo, branch, net)
         d == res.dir
     IN repo' = [d EXCEPT
                   !.prev = repo.last,
                   !.last = [called |-> TRUE, branch |-> branch,
                             existed |-> repo.exists, cloned |-> ~repo.exists,
                             net |-> net, ok |-> res.ok,
                             clean |-> ~repo.between,
                             commit |-> d.commit, wt |-> d.wt],
                   !.between = FALSE]
  /\ UNCHANGED <<pipeline, terminal, engineCalls>>

\* buildImage writes the generated Dockerfile into the work directory that
\* ensureRepo returned.
writeDockerfile ==
  /\ repo.exists
  /\ repo.last.called /\ repo.last.ok
  /\ repo.wt # Template
  /\ repo' = [repo EXCEPT !.wt = Template, !.between = TRUE]
  /\ UNCHANGED <<pipeline, terminal, engineCalls>>

\* Somebody pushes a commit to a branch of the remote.
push(b) ==
  /\ repo.tip[b] < MaxCommits
  /\ repo' = [repo EXCEPT !.tip[b] = @ + 1, !.between = TRUE]
  /\ UNCHANGED <<pipeline, terminal, engineCalls>>

\* The work directory of one project: absent, or left by a shallow clone.
InitRepo ==
  /\ projects = InitialProjects
  /\ deployments = << >>
  /\ nextId = 1
  /\ jobs = << >>
  /\ run = << >>
  /\ containers = [p \in ProjectIds |-> NoContainer]
  /\ images = {}
  /\ started = 0
  /\ lastCreate = NoCall
  /\ lastRun = NoRun
  /\ terminal = NoRequest
  /\ imageBuild = NoBuild
  /\ logRead = NoLogRead
  /\ \E file \in [RemoteBranches -> FileContents] :
       LET r == [NoRepo EXCEPT !.file = file]
       IN repo \in {r, ShallowClone(r)}

NextRepo ==
  \/ \E branch \in Branches, net \in BOOLEAN : GitService_ensureRepo(branch, net)
  \/ writeDockerfile
  \/ \E b \in RemoteBranches : push(b)

\* The deploys of one project as the repository manager sees them.
SpecRepo == InitRepo /\ [][NextRepo]_vars

\* --------------------------------------------- POST /projects/:id/terminal
\* Longest command terminalCommandSchema accepts.
MaxCommandChars == 1000

\* terminalCommandSchema.safeParse(body).success
terminalCommandSchema(command) == Len(command) \in 1..MaxCommandChars

\* getSession: the user of the session cookie; a request without a valid
\* cookie is anonymous and getSession throws UnauthorizedError.
Anonymous == "anonymous"

Requesters == Users \cup {Anonymous}

\* project.deployments[0] of findByIdWithDeployments (newest first): the id
\* of the project's newest deployment, 0 when it has none.
latestDeployment(projectId) ==
  LET ds == {d \in DOMAIN deployments : deployments[d].projectId = projectId}
  IN IF ds = {} THEN 0 ELSE CHOOSE d \in ds : \A o \in ds : o <= d

\* Commands the requests carry: empty, allowed, not allowed, blank, and the
\* slash inputs.
RouteCommands ==
  { << >>, <<"l", "s">>, <<"x">>, <<" ">> } \cup SlashInputs

\* A request that ended in the route with that HTTP status.
Respond(t, status, error) ==
  [t EXCEPT !.status = status, !.settled = "rejected", !.error = error, !.pc = "done"]

\* Mutant of POST: the status of the latest deployment is not looked at.
POST_NoDeployedCheck(session, projectId, command) ==
  /\ terminal = NoRequest
  /\ LET t == [terminal EXCEPT !.auth = session, !.projectId = projectId,
                               !.command = command]
         slug == ProjectTable[projectId].slug
     IN terminal' =
          IF session = Anonymous THEN Respond(t, 401, "UNAUTHORIZED")
          ELSE IF ~terminalCommandSchema(command) THEN Respond(t, 400, "VALIDATION_ERROR")
          ELSE IF projectId \notin projects \/ ProjectTable[projectId].userId # session
               THEN Respond(t, 404, "NOT_FOUND")
          ELSE IF Head(command) = "/"
               THEN executeSlashCommandCall(t, containerNameOf(slug), command)
               ELSE executeCommandCall(t, containerNameOf(slug), command)
  /\ UNCHANGED <<pipeline, repo, engineCalls>>

\* POST up to the first await inside the command gateway; the response to a
\* request that reaches the gateway is sent when the call settles.
POST(session, projectId, command) ==
  /\ terminal = NoRequest
  /\ LET t == [terminal EXCEPT !.auth = session, !.projectId = projectId,
                               !.command = command]
         latest == latestDeployment(projectId)
         slug == ProjectTable[projectId].slug
     IN terminal' =
          IF session = Anonymous THEN Respond(t, 401, "UNAUTHORIZED")
          ELSE IF ~terminalCommandSchema(command) THEN Respond(t, 400, "VALIDATION_ERROR")
          ELSE IF projectId \notin projects \/ ProjectTable[projectId].userId # session
               THEN Respond(t, 404, "NOT_FOUND")
          ELSE IF latest = 0 \/ deployments[latest].status # "DEPLOYED"
               THEN Respond(t, 400, "NOT_DEPLOYED")
          ELSE IF Head(command) = "/"
               THEN executeSlashCommandCall(t, containerNameOf(slug), command)
               ELSE executeCommandCall(t, containerNameOf(slug), command)
  /\ UNCHANGED <<pipeline, repo, engineCalls>>

\* Rows the pipeline leaves behind for a project: queued, building, deployed
\* (holding the subdomain, or after a later deployment took it) and failed;
\* for a project without repository URL, queued and failed by markNoUrlFailed.
RouteRows(p) ==
  LET queued == NewRow(p, "QUEUED")
      building == Patch(queued, BuildingData)
      deployed == Patch(building, DeployedData(findAvailablePort(PortRange - 1),
                                               ProjectTable[p].slug))
  IN IF ProjectTable[p].githubUrl = ""
     THEN { queued, Patch(queued, NoUrlFailedData) }
     ELSE { queued, building, deployed, [deployed EXCEPT !.subdomain = NULL],
            Patch(building, FailedData) }

\* Deployment tables of at most MaxDeployments rows, ids in creation order,
\* no subdomain held twice.
RouteTables ==
  { rows \in UNION {[1..n -> UNION {RouteRows(p) : p \in InitialProjects}] :
                      n \in 0..MaxDeployments} :
      \A i, k \in DOMAIN rows :
        (i # k /\ rows[i].subdomain # NULL) => rows[i].subdomain # rows[k].subdomain }

\* The route reads the Project and Deployment rows only: the store holds any
\* of the tables, and no request was made.
InitRoute ==
  /\ projects = InitialProjects
  /\ deployments \in RouteTables
  /\ nextId = Len(deployments) + 1
  /\ jobs = << >>
  /\ run = << >>
  /\ containers = [p \in ProjectIds |-> NoContainer]
  /\ images = {}
  /\ started = 0
  /\ lastCreate = NoCall
  /\ lastRun = NoRun
  /\ terminal = NoRequest
  /\ repo = NoRepo
  /\ imageBuild = NoBuild
  /\ logRead = NoLogRead

NextRoute ==
  \/ \E session \in Requesters, projectId \in ProjectIds, command \in RouteCommands :
       POST(session, projectId, command)
  \/ gatewayStep

\* One terminal request against a store the pipeline has left.
SpecRoute == InitRoute /\ [][NextRoute]_vars

\* ------------------------------------------------ DockerService.buildImage
\* Events of the build stream.  stream is the text of an output chunk (0: the
\* event has no stream field); error and errorDetail are NULL when the event
\* has none, errorDetail "noMessage" is a detail without a message.
StreamChunk(i) == [stream |-> i, error |-> NULL, errorDetail |-> NULL]

ErrorChunks ==
  { [stream |-> 0, error |-> "E", errorDetail |-> "D"],
    [stream |-> 0, error |-> NULL, errorDetail |-> "D"],
    [stream |-> 0, error |-> NULL, errorDetail |-> "noMessage"] }

\* A build stream of n events whose errAt-th is the error chunk e (errAt = 0:
\* every event is an output chunk).
BuildStream(n, errAt, e) == [i \in 1..n |-> IF i = errAt THEN e ELSE StreamChunk(i)]

\* (o) => o.error ?? o.errorDetail
IsBuildError(o) == o.error # NULL \/ o.errorDetail # NULL

\* buildError.error ?? buildError.errorDetail?.message ?? 'Docker build failed'
BuildErrorMessage(o) ==
  IF o.error # NULL THEN o.error
  ELSE IF o.errorDetail # "noMessage" THEN o.errorDetail
  ELSE "Docker build failed"

\* buildLog.slice(-20)
BuildLogTail(log) ==
  IF Len(log) <= TailLines THEN log
  ELSE SubSeq(log, Len(log) - TailLines + 1, Len(log))

\* What a buildImage call leaves alone.
buildFrame == <<projects, deployments, nextId, jobs, run, containers, started,
                lastCreate, lastRun, terminal, repo, logRead>>

BuildEnded(b, result, msg, tail) ==
  [b EXCEPT !.pc = "done", !.result = result, !.msg = msg, !.tail = tail]

\* buildImage up to the build stream: the Dockerfile is written into the
\* context and docker.buildImage is called; either may throw.
DockerService_buildImage(ok) ==
  /\ imageBuild.pc = "call"
  /\ imageBuild' = IF ok THEN [imageBuild EXCEPT !.pc = "follow"]
                   ELSE BuildEnded(imageBuild, "threw", "io", << >>)
  /\ UNCHANGED <<images, buildFrame>>

\* followProgress hands one event to the progress callback, which collects
\* its stream text.
onProgress ==
  /\ imageBuild.pc = "follow"
  /\ imageBuild.events # << >>
  /\ LET event == Head(imageBuild.events) IN
     imageBuild' = [imageBuild EXCEPT
                      !.events = Tail(@),
                      !.output = Append(@, event),
                      !.buildLog = IF event.stream # 0 THEN Append(@, event.stream) ELSE @]
  /\ UNCHANGED <<images, buildFrame>>

\* The stream ends, with a transport error or after its last event, and
\* followProgress calls the completion callback with all events; a build that
\* tags its image has done so by then.
onFinished ==
  LET b == imageBuild
      errors == {i \in 1..Len(b.output) : IsBuildError(b.output[i])}
      buildError == b.output[CHOOSE i \in errors : \A k \in errors : i <= k]
  IN
  /\ b.pc = "follow"
  /\ b.transportError \/ b.events = << >>
  /\ IF b.transportError
     THEN /\ imageBuild' = BuildEnded(b, "threw", "transport", << >>)
          /\ UNCHANGED images
     ELSE IF errors # {}
     THEN /\ imageBuild' = BuildEnded(b, "threw", BuildErrorMessage(buildError),
                                      BuildLogTail(b.buildLog))
          /\ UNCHANGED images
     ELSE /\ imageBuild' = [b EXCEPT !.pc = "inspect"]
          /\ images' = IF b.tagged THEN images \cup {b.project} ELSE images
  /\ UNCHANGED buildFrame

\* await this.docker.getImage(imageName).inspect(): the image of that tag is
\* there or the call throws; then return imageName.
inspectImage ==
  /\ imageBuild.pc = "inspect"
  /\ imageBuild' = IF imageBuild.project \in images
                   THEN BuildEnded(imageBuild, "returned", NULL, << >>)
                   ELSE BuildEnded(imageBuild, "threw", "noImage", << >>)
  /\ UNCHANGED <<images, buildFrame>>

\* One buildImage call for the first project: any build stream of up to
\* MaxChunks events with at most one error chunk, ended by the engine or by a
\* transport error, with or without an image of an earlier build.  Only a
\* stream that ends without error can have tagged an image.
InitBuild ==
  /\ projects = InitialProjects
  /\ deployments = << >>
  /\ nextId = 1
  /\ jobs = << >>
  /\ run = << >>
  /\ containers = [p \in ProjectIds |-> NoContainer]
  /\ images \in {{}, {"p1"}}
  /\ started = 0
  /\ lastCreate = NoCall
  /\ lastRun = NoRun
  /\ terminal = NoRequest
  /\ repo = NoRepo
  /\ logRead = NoLogRead
  /\ \E n \in 0..MaxChunks, errAt \in 0..MaxChunks, e \in ErrorChunks,
        transportError \in BOOLEAN, tagged \in BOOLEAN :
       /\ errAt <= n
       /\ tagged => (errAt = 0 /\ ~transportError)
       /\ imageBuild = [NoBuild EXCEPT !.pc = "call", !.project = "p1",
                                       !.events = BuildStream(n, errAt, e),
                                       !.transportError = transportError,
                                       !.tagged = tagged]

NextBuild ==
  \/ \E ok \in BOOLEAN : DockerService_buildImage(ok)
  \/ onProgress
  \/ onFinished
  \/ inspectImage

\* One image build as the container service runs it.
SpecBuild == InitBuild /\ [][NextBuild]_vars

\* ------------------------------------- DockerTerminalService.getContainerLogs
\* Bytes a log line is made of here: a space and a letter.
PayloadBytes == {32, 97}

StreamKinds == {1, 2}

Payloads == UNION {[1..n -> PayloadBytes] : n \in 0..MaxPayload}

\* The frames the engine writes: kind 1 is stdout, kind 2 stderr.
Frames == [kind : StreamKinds, payload : Payloads]

\* A 32-bit length as the engine writes it, most significant byte first.
UInt32BE(n) ==
  <<(n \div 16777216) % 256, (n \div 65536) % 256, (n \div 256) % 256, n % 256>>

\* One frame on the wire: the 8-byte header, then the payload.
FrameBytes(f) == <<f.kind, 0, 0, 0>> \o UInt32BE(Len(f.payload)) \o f.payload

RECURSIVE Mux(_)
Mux(frames) ==
  IF frames = << >> THEN << >> ELSE FrameBytes(Head(frames)) \o Mux(Tail(frames))

\* buf.readUInt32BE(offset), offset counted from 0.
readUInt32BE(buf, offset) ==
  buf[offset + 1] * 16777216 + buf[offset + 2] * 65536 + buf[offset + 3] * 256
    + buf[offset + 4]

\* buf.toString('utf8') on bytes that each stand alone: a byte below 128 is
\* the character of that code, any other is replaced by U+FFFD.
toStringUtf8(bytes) ==
  [i \in 1..Len(bytes) |-> IF bytes[i] < 128 THEN bytes[i] ELSE 65533]

\* strings.join('')
RECURSIVE join(_)
join(strings) ==
  IF strings = << >> THEN << >> ELSE Head(strings) \o join(Tail(strings))

\* Character codes String.prototype.trim removes, among those below 128.
WhiteSpaceCodes == {9, 10, 11, 12, 13, 32}

\* String.prototype.trim on a string given by its character codes.
RECURSIVE trimCodesStart(_)
trimCodesStart(str) ==
  IF str # << >> /\ Head(str) \in WhiteSpaceCodes THEN trimCodesStart(Tail(str)) ELSE str

RECURSIVE trimCodesEnd(_)
trimCodesEnd(str) ==
  IF str # << >> /\ str[Len(str)] \in WhiteSpaceCodes
  THEN trimCodesEnd(SubSeq(str, 1, Len(str) - 1)) ELSE str

trimCodes(str) == trimCodesEnd(trimCodesStart(str))

\* What a getContainerLogs call leaves alone.
logsFrame == <<pipeline, terminal, repo, imageBuild>>

\* container.logs has returned the buffer: a buffer of more than 8 bytes is
\* demultiplexed, any other is pushed whole to stdout.
getContainerLogs ==
  /\ logRead.pc = "returned"
  /\ logRead' =
       IF Len(logRead.buf) > 8
       THEN [logRead EXCEPT !.pc = "loop"]
       ELSE [logRead EXCEPT !.pc = "join", !.fallback = TRUE,
                            !.stdout = Append(@, toStringUtf8(logRead.buf))]
  /\ UNCHANGED logsFrame

\* One turn of the while loop: leave at the end of the buffer, at a header
\* that is cut short, or at a payload that is; else push the payload to the
\* array of its stream type and step over the frame.
demuxFrame ==
  LET l == logRead
      len == Len(l.buf)
      streamType == l.buf[l.offset + 1]
      payloadLen == readUInt32BE(l.buf, l.offset + 4)
      start == l.offset + 8
      payload == toStringUtf8(SubSeq(l.buf, start + 1, start + payloadLen))
  IN
  /\ l.pc = "loop"
  /\ logRead' =
       IF l.offset >= len \/ l.offset + 8 > len THEN [l EXCEPT !.pc = "join"]
       ELSE IF start + payloadLen > len THEN [l EXCEPT !.pc = "join", !.offset = start]
       ELSE IF streamType = 2
            THEN [l EXCEPT !.stderr = Append(@, payload), !.offset = start + payloadLen]
            ELSE [l EXCEPT !.stdout = Append(@, payload), !.offset = start + payloadLen]
  /\ UNCHANGED logsFrame

\* The two arrays are joined and trimmed; an empty stdout is reported as
\* '(no logs available)'.
returnLogs ==
  /\ logRead.pc = "join"
  /\ logRead' = [logRead EXCEPT !.pc = "done",
                                !.stdoutText = trimCodes(join(logRead.stdout)),
                                !.stderrText = trimCodes(join(logRead.stderr)),
                                !.noLogs = (trimCodes(join(logRead.stdout)) = << >>)]
  /\ UNCHANGED logsFrame

\* One getContainerLogs call on the log of a container: up to MaxFrames
\* frames with payloads of up to MaxPayload bytes, whole or cut short at
\* any byte.
InitLogs ==
  /\ projects = InitialProjects
  /\ deployments = << >>
  /\ nextId = 1
  /\ jobs = << >>
  /\ run = << >>
  /\ containers = [p \in ProjectIds |-> NoContainer]
  /\ images = {}
  /\ started = 0
  /\ lastCreate = NoCall
  /\ lastRun = NoRun
  /\ terminal = NoRequest
  /\ repo = NoRepo
  /\ imageBuild = NoBuild
  /\ \E n \in 0..MaxFrames : \E frames \in [1..n -> Frames] :
       \E cut \in 0..Len(Mux(frames)) :
         logRead = [NoLogRead EXCEPT !.pc = "returned", !.frames = frames,
                                     !.buf = SubSeq(Mux(frames), 1, cut)]

NextLogs ==
  \/ getContainerLogs
  \/ demuxFrame
  \/ returnLogs

\* One read of a container's log as the command gateway demultiplexes it.
SpecLogs == InitLogs /\ [][NextLogs]_vars

\* ------------------------------------------------------------- redeploy
\* container.start() is refused by the engine for a reason of the host: the
\* port findAvailablePort drew, which it does not check, is in use by another
\* process.  The container stays created and the error goes to the catch.
startRefused(j) ==
  /\ run[j].pc = "startContainer"
  /\ Throw(j, "startContainer")
  /\ UNCHANGED <<projects, deployments, nextId, jobs, containers, images, started>>
  /\ lastCreate' = NoCall

NextRedeploy ==
  \/ Next
  \/ /\ \E j \in DOMAIN jobs : startRefused(j)
     /\ UNCHANGED others

\* The API and the worker on a host where the start of a container can be
\* refused.
SpecRedeploy == Init /\ [][NextRedeploy]_vars

\* ----------------------------------------------------------- /bin/sh -c
\* What follows the first word of a command: nothing, an argument, and a
\* second command behind each of the shell's ways to run one.
ShellSuffixes ==
  { << >>,
    <<" ", "-", "a">>,
    <<";", "x">>,
    <<" ", ";", " ", "x">>,
    <<" ", "&", "&", " ", "x">>,
    <<" ", "|", " ", "x">>,
    <<" ", "$", "(", "x", ")">> }

\* Command strings sent to executeCommand: an allowed or another first word,
\* then one of the suffixes.
ShellCommands == {w \o suffix : w \in {<<"l", "s">>, <<"x">>}, suffix \in ShellSuffixes}

\* Characters at which the shell ends one simple command and reads another:
\* list and pipeline operators and the brackets of a command substitution.
CommandBreaks == {";", "|", "&", "(", ")"}

\* The pieces of a command line between those characters.
RECURSIVE simpleCommandsFrom(_, _)
simpleCommandsFrom(s, cur) ==
  IF s = << >> THEN <<cur>>
  ELSE IF Head(s) \in CommandBreaks
       THEN <<cur>> \o simpleCommandsFrom(Tail(s), << >>)
       ELSE simpleCommandsFrom(Tail(s), Append(cur, Head(s)))

simpleCommands(s) == simpleCommandsFrom(s, << >>)

\* The programs /bin/sh -c <command> starts: the first word of every simple
\* command of the line.
programs(command) ==
  {split(trim(simpleCommands(command)[i]))[1] : i \in 1..Len(simpleCommands(command))}
    \ {<< >>}

\* The programs the exec of the call in progress has started in the container.
ProgramsRun ==
  IF terminal.pc = "stream" THEN programs(terminal.execCmd) ELSE {}

NextShell ==
  \/ \E n \in ContainerNames, c \in ShellCommands : executeCommand(n, c)
  \/ \E n \in ContainerNames, c \in SlashInputs : executeSlashCommand(n, c)
  \/ gatewayStep

\* Calls of the command gateway with command lines of more than one command.
SpecShell == Init /\ [][NextShell]_vars

\* ==================================================================== claims
Terminal == {"DEPLOYED", "FAILED"}

Owned(projectId, userId) ==
  projectId \in projects /\ ProjectTable[projectId].userId = userId

ContainerLive(p) == containers[p].exists /\ containers[p].running

\* C1: in every reachable state a deployment's completedAt is non-null if and
\* only if its status is DEPLOYED or FAILED.
C1_CompletedAtIffTerminal ==
  \A d \in DOMAIN deployments :
    (deployments[d].completedAt # NULL) <=> (deployments[d].status \in Terminal)

\* C2: a deployment whose status is DEPLOYED or FAILED has buildStep null, and
\* buildStep is one of CLONING, BUILDING_IMAGE, STARTING only while the status
\* is BUILDING, for any interleaving of pipeline runs.
C2_BuildStepOnlyWhileBuilding ==
  \A d \in DOMAIN deployments :
    /\ deployments[d].status \in Terminal => deployments[d].buildStep = NULL
    /\ deployments[d].buildStep \in BuildSteps => deployments[d].status = "BUILDING"

\* C3: at every instant, for every project P, at most one deployment of P has
\* subdomain = P.slug, also while two pipelines of P interleave their
\* clearSubdomainForOtherDeployments and DEPLOYED writes.
C3_OneSubdomainHolder ==
  \A p \in ProjectIds :
    Cardinality({d \in DOMAIN deployments :
                   /\ deployments[d].projectId = p
                   /\ deployments[d].subdomain = ProjectTable[p].slug}) <= 1

\* C3 witness: a run's DEPLOYED write was refused by the unique constraint
\* because another deployment of the same project holds the slug.
C3_Witness ==
  /\ lastRun.result = "threw"
  /\ lastRun.err = "P2002"
  /\ \E d \in DOMAIN deployments :
       /\ d # jobs[lastRun.job].deploymentId
       /\ deployments[d].subdomain = ProjectTable[deployments[d].projectId].slug

\* C4 as claimed: every DEPLOYED deployment has a non-null containerPort that
\* is the host port bound by a live container dropdeploy-<slug> of its project.
C4_DeployedPortIsLiveContainer ==
  \A d \in DOMAIN deployments :
    deployments[d].status = "DEPLOYED" =>
      /\ deployments[d].containerPort # {}
      /\ ContainerLive(deployments[d].projectId)
      /\ containers[deployments[d].projectId].hostPort = deployments[d].containerPort

\* C4 as amended: every DEPLOYED deployment has a non-null containerPort, one
\* host port of the range 8000..9999 (the container bound to it may have been
\* replaced or removed since).
C4_DeployedHasPort ==
  \A d \in DOMAIN deployments :
    deployments[d].status = "DEPLOYED" =>
      /\ Cardinality(deployments[d].containerPort) = 1
      /\ \A h \in deployments[d].containerPort : PortBase <= h /\ h <= PortBase + PortRange - 1

\* C4 witness: a DEPLOYED deployment whose port is not that of a live container.
C4_Witness ==
  \E d \in DOMAIN deployments :
    /\ deployments[d].status = "DEPLOYED"
    /\ deployments[d].containerPort # {}
    /\ ~(/\ ContainerLive(deployments[d].projectId)
         /\ containers[deployments[d].projectId].hostPort = deployments[d].containerPort)

\* C5: DEPLOYED and FAILED are terminal; the only status transitions of a row
\* are QUEUED -> BUILDING, BUILDING -> DEPLOYED and non-terminal -> FAILED,
\* whatever run (retry or duplicate job included) takes the step.
C5_StatusTransitions ==
  [][\A d \in DOMAIN deployments \cap DOMAIN deployments' :
       \/ deployments'[d].status = deployments[d].status
       \/ <<deployments[d].status, deployments'[d].status>> \in
            {<<"QUEUED", "BUILDING">>, <<"BUILDING", "DEPLOYED">>,
             <<"QUEUED", "FAILED">>, <<"BUILDING", "FAILED">>}]_vars

\* C6: createDeployment(projectId, userId) fails with NotFound when the project
\* does not exist or belongs to another user; no Deployment row is created and
\* no job is submitted.
C6_NotFoundCreatesNothing ==
  [][lastCreate'.result # "none" =>
       \A p \in ProjectIds \cup {GhostProject}, u \in Users :
         (~Owned(p, u) /\ createDeployment(p, u, Resolved))
           => /\ lastCreate'.result = "NotFound"
              /\ deployments' = deployments
              /\ nextId' = nextId
              /\ jobs' = jobs]_vars

\* C6 witness: a call has just failed with NotFound.
C6_Witness == lastCreate.result = "NotFound"

C8_StaleJobIsNoOp ==
  [][\A j \in DOMAIN jobs :
       (/\ run[j].pc = "find"
        /\ run'[j].pc # "find"
        /\ jobs[j].deploymentId \notin DOMAIN deployments)
         => /\ lastRun' = [job |-> j, result |-> "completed", err |-> NULL, thrown |-> NULL]
            /\ jobs'[j].state = "completed"
            /\ jobs'[j].attemptsMade = jobs[j].attemptsMade
            /\ run'[j] = IdleRun
            /\ UNCHANGED <<projects, deployments, containers, images>>]_vars

\* C8 witness: a run has just completed for a job whose row is gone.
C8_Witness ==
  /\ lastRun.result = "completed"
  /\ jobs[lastRun.job].deploymentId \notin DOMAIN deployments

\* C9: if a pipeline step of buildAndDeploy fails, the row is written FAILED
\* with buildStep null and completedAt set, and the original error is
\* rethrown to the worker.
C9_FailureRecordedAndRethrown ==
  (lastRun.result = "threw" /\ lastRun.err # NULL) =>
    /\ lastRun.thrown = lastRun.err
    /\ jobs[lastRun.job].deploymentId \in DOMAIN deployments
    /\ LET row == deployments[jobs[lastRun.job].deploymentId] IN
         /\ row.status = "FAILED"
         /\ row.buildStep = NULL
         /\ row.completedAt # NULL

\* C10: after a failed pipeline run the deployment's logs field is non-empty
\* and holds the failure reason.
C10_FailureReasonInLogs ==
  (/\ lastRun.result = "threw"
   /\ lastRun.err # NULL
   /\ jobs[lastRun.job].deploymentId \in DOMAIN deployments)
    => deployments[jobs[lastRun.job].deploymentId].logs = lastRun.err

HasRun(j) == jobs[j].attemptsMade > 0 \/ jobs[j].state = "completed"

\* Deployment ids whose job was submitted twice, with runs of both ended and
\* no run in flight.
RunTwice ==
  {d \in DOMAIN deployments :
     /\ Active = {}
     /\ \E j1, j2 \in DOMAIN jobs :
          /\ j1 # j2
          /\ jobs[j1].deploymentId = d /\ jobs[j2].deploymentId = d
          /\ HasRun(j1) /\ HasRun(j2)}

\* The terminal status the run that has just ended wrote into its row.
WrittenBy(r) ==
  IF r.result = "completed"
     /\ ProjectTable[deployments[jobs[r.job].deploymentId].projectId].githubUrl # ""
  THEN "DEPLOYED" ELSE "FAILED"

C13_AllocatedPortIsFree ==
  [][\A j \in DOMAIN jobs :
       (run[j].pc = "createContainer" /\ run'[j].pc = "startContainer")
         => /\ \A h \in run'[j].hostPort : PortBase <= h /\ h <= PortBase + PortRange - 1
            /\ ~PortBound(run'[j].hostPort, run[j].project)]_vars

\* The first white-space-delimited token of a command: the longest run of
\* characters that are not white space, from the first such character on
\* (empty for an empty or blank command).
FirstToken(cmd) ==
  LET solid == {i \in 1..Len(cmd) : cmd[i] \notin WhiteSpace} IN
  IF solid = {} THEN << >>
  ELSE LET a == CHOOSE i \in solid : \A k \in solid : i <= k
           b == CHOOSE j \in a..Len(cmd) :
                  /\ \A k \in a..j : k \in solid
                  /\ (j + 1) \notin solid
       IN SubSeq(cmd, a, b)

\* Engine calls made so far for the terminal request.
EngineCalls == {terminal.calls[i] : i \in 1..Len(terminal.calls)}

\* C14: executeCommand(container, cmd) forwards cmd, whatever follows its
\* first token, to the container engine when the first white-space-delimited
\* token is on the allow-list; otherwise (also for an empty or blank cmd) it
\* fails before any engine call.
C14_AllowListDecides ==
  terminal.via = "executeCommand" =>
    IF FirstToken(terminal.command) \in ALLOWED_COMMANDS
    THEN /\ terminal.error \notin {"empty", "notAllowed"}
         /\ terminal.pc # "idle"
         /\ terminal.execCmd = terminal.command
    ELSE /\ terminal.settled = "rejected"
         /\ terminal.error \in {"empty", "notAllowed"}
         /\ terminal.pc = "idle"
         /\ terminal.calls = << >>
         /\ terminal.execCmd = << >>

\* C14 witness: a command whose first token is allowed and which goes on with
\* a shell separator has reached the engine's exec call.
C14_Witness ==
  /\ terminal.via = "executeCommand"
  /\ \E i \in 1..Len(terminal.command) : terminal.command[i] = ";"
  /\ "exec" \in EngineCalls
  /\ terminal.execCmd = terminal.command

\* The latest deployment of the project the terminal request names is DEPLOYED.
LatestDeployed(projectId) ==
  LET latest == latestDeployment(projectId)
  IN latest # 0 /\ deployments[latest].status = "DEPLOYED"

\* C15: a terminal request for a project whose latest deployment is absent or
\* not DEPLOYED makes no command-gateway and no engine call and is answered
\* with an error, which is 400 once the requester is known to own the project
\* and the body is valid; a command the allow-list rejects is answered 400
\* without an engine call; executeCommand or executeSlashCommand is reached
\* only for the owner of a project whose latest deployment is DEPLOYED.
C15_TerminalOnlyWhenDeployed ==
  terminal.auth # NULL =>
    /\ ~LatestDeployed(terminal.projectId) =>
         /\ terminal.via = "none"
         /\ terminal.calls = << >>
         /\ terminal.status \in {400, 401, 404}
         /\ (/\ Owned(terminal.projectId, terminal.auth)
             /\ terminalCommandSchema(terminal.command))
              => terminal.status = 400 /\ terminal.error = "NOT_DEPLOYED"
    /\ terminal.error \in {"empty", "notAllowed"} =>
         terminal.status = 400 /\ terminal.calls = << >>
    /\ terminal.via # "none" =>
         /\ Owned(terminal.projectId, terminal.auth)
         /\ LatestDeployed(terminal.projectId)

\* The owner asked for a terminal while a redeploy of a deployed project is
\* building: 400, nothing called.
C15_Witness ==
  /\ terminal.auth # NULL
  /\ Owned(terminal.projectId, terminal.auth)
  /\ terminal.status = 400 /\ terminal.error = "NOT_DEPLOYED"
  /\ terminal.via = "none" /\ terminal.calls = << >>
  /\ \E d \in DOMAIN deployments :
       /\ deployments[d].projectId = terminal.projectId
       /\ deployments[d].status = "DEPLOYED"
       /\ d < latestDeployment(terminal.projectId)

\* A call of the command gateway has been made.
Called_Gateway == terminal.via # "none"

TrackedClean(r) == r.file[r.head] # "none" => r.wt = r.file[r.head]

\* The state ensureRepo(branch) has just returned in: the working tree is on
\* branch at the tip of origin/branch, the repository is not shallow and no
\* tracked file is changed.
Pinned(branch) ==
  /\ repo.last.ok
  /\ repo.head = branch
  /\ repo.commit = repo.tip[branch]
  /\ ~repo.shallow
  /\ TrackedClean(repo)

\* C17: ensureRepo clones if and only if <workDir>/.git does not exist; a
\* second call in succession for the same branch does not clone and leaves the
\* working tree of the first, pinned to origin/branch, not shallow, local
\* edits discarded; a later call for another branch of the remote succeeds
\* without cloning and leaves the tree pinned to that branch.
C17_CloneOnceThenPull ==
  LET l == repo.last
      p == repo.prev
  IN (l.called /\ ~repo.between) =>
       /\ l.cloned <=> ~l.existed
       /\ (p.called /\ p.ok /\ l.net /\ l.clean /\ l.branch = p.branch) =>
            /\ ~l.cloned
            /\ l.commit = p.commit /\ l.wt = p.wt
            /\ Pinned(l.branch)
       /\ (p.called /\ p.ok /\ l.net /\ l.branch \in RemoteBranches /\ l.branch # p.branch) =>
            /\ ~l.cloned
            /\ Pinned(l.branch)

\* C18: the subdomain changes hands in one step of the store: a step that
\* clears a deployment's subdomain leaves another deployment of the same
\* project DEPLOYED and holding that subdomain, so that no state has the
\* previous holder cleared and the new deployment not yet written.
C18_AtomicTransfer ==
  [][\A d \in DOMAIN deployments \cap DOMAIN deployments' :
       (deployments[d].subdomain # NULL /\ deployments'[d].subdomain = NULL) =>
         \E n \in DOMAIN deployments' :
           /\ n # d
           /\ deployments'[n].projectId = deployments[d].projectId
           /\ deployments'[n].status = "DEPLOYED"
           /\ deployments'[n].subdomain = deployments[d].subdomain]_vars

\* C19: when pipelines of two deployments of one project race, the later
\* DEPLOYED write wins: no run fails because the other deployment's subdomain
\* write came first, and the deployment a run has just written DEPLOYED holds
\* subdomain = slug while every other deployment of the project has none.
C19_LaterDeployedWriteWins ==
  lastRun.job # 0 =>
    LET d == jobs[lastRun.job].deploymentId IN
    /\ lastRun.err # "P2002"
    /\ (/\ lastRun.result = "completed"
        /\ d \in DOMAIN deployments
        /\ deployments[d].status = "DEPLOYED") =>
         /\ deployments[d].subdomain = ProjectTable[deployments[d].projectId].slug
         /\ \A o \in DOMAIN deployments :
              (o # d /\ deployments[o].projectId = deployments[d].projectId)
                => deployments[o].subdomain = NULL

\* The run of a deployment has just been killed between its BUILDING_IMAGE
\* write and its STARTING write.
KilledWhileBuilding ==
  /\ lastRun.result = "killed"
  /\ lastRun.err \in {"buildImage", "markStarting"}

\* C20: when the worker is killed after the BUILDING_IMAGE write and before
\* the STARTING write, the row is left BUILDING with completedAt null, and
\* the re-run of the job eventually brings the row to DEPLOYED or FAILED.
C20_KilledRunIsResumed ==
  /\ [](KilledWhileBuilding =>
        LET d == jobs[lastRun.job].deploymentId IN
        /\ deployments[d].status = "BUILDING"
        /\ deployments[d].buildStep = "BUILDING_IMAGE"
        /\ deployments[d].completedAt = NULL)
  /\ (KilledWhileBuilding ~> (deployments[1].status \in Terminal))

\* buildStep values a row may pass between two states while it stays
\* BUILDING: unchanged, or one step forward.
StepForward == {<<"CLONING", "BUILDING_IMAGE">>, <<"BUILDING_IMAGE", "STARTING">>}

\* C21: while a deployment is BUILDING its buildStep stays or advances by one
\* step in the order CLONING, BUILDING_IMAGE, STARTING, also with a duplicate
\* job running; and a run enters ensureRepo, buildImage and runContainer with
\* the marker of that operation just written.
C21_BuildStepAdvances ==
  [][/\ \A d \in DOMAIN deployments \cap DOMAIN deployments' :
          (deployments[d].status = "BUILDING" /\ deployments'[d].status = "BUILDING") =>
            \/ deployments'[d].buildStep = deployments[d].buildStep
            \/ <<deployments[d].buildStep, deployments'[d].buildStep>> \in StepForward
     /\ \A j \in DOMAIN run \cap DOMAIN run' :
          /\ (run[j].pc # "ensureRepo" /\ run'[j].pc = "ensureRepo") =>
               deployments'[jobs[j].deploymentId].buildStep = "CLONING"
          /\ (run[j].pc # "buildImage" /\ run'[j].pc = "buildImage") =>
               deployments'[jobs[j].deploymentId].buildStep = "BUILDING_IMAGE"
          /\ (run[j].pc # "removeExisting" /\ run'[j].pc = "removeExisting") =>
               deployments'[jobs[j].deploymentId].buildStep = "STARTING"]_vars

\* The project has no repository URL.
NoUrl(p) == ProjectTable[p].githubUrl = ""

BuildHadErrorChunk == \E i \in 1..Len(imageBuild.output) : IsBuildError(imageBuild.output[i])

BuildStreamCompleted ==
  imageBuild.pc = "done" /\ imageBuild.msg # "io" /\ ~imageBuild.transportError

\* C24: buildImage fails whenever the build stream reports an error chunk, with
\* a message that carries the last 20 collected output chunks; it fails
\* whenever the stream completes without error but the build produced no
\* image, an image of that tag left by an earlier build included; and it
\* returns the image reference only when this build produced the image.
C24_BuildFailsWithoutOwnImage ==
  BuildStreamCompleted =>
    /\ BuildHadErrorChunk =>
         /\ imageBuild.result = "threw"
         /\ Len(imageBuild.tail) = IF Len(imageBuild.buildLog) < TailLines
                                    THEN Len(imageBuild.buildLog) ELSE TailLines
         /\ \A i \in 1..Len(imageBuild.tail) :
              imageBuild.tail[i] =
                imageBuild.buildLog[Len(imageBuild.buildLog) - Len(imageBuild.tail) + i]
    /\ (~BuildHadErrorChunk /\ ~imageBuild.tagged) => imageBuild.result = "threw"
    /\ imageBuild.result = "returned" => imageBuild.tagged

\* Positions of a run after its BUILDING write.  A run in the catch clause
\* made that write when the error it caught is one of a later step; P2025 is
\* also what the BUILDING write itself throws, so such a run is left out.
AfterBuildingWrite ==
  {"ensureRepo", "markBuildingImage", "buildImage", "markStarting", "removeExisting",
   "createContainer", "startContainer", "clearSubdomain", "markDeployed"}

WroteBuilding(j) ==
  \/ run[j].pc \in AfterBuildingWrite
  \/ run[j].pc = "catch" /\ run[j].err # "P2025"

\* C25: once buildAndDeploy has written status BUILDING, the run ends by
\* writing a terminal status for that row: the step that ends the run leaves
\* the row in the store with status DEPLOYED or FAILED, also when the FAILED
\* write of the failure handler throws or the row is deleted during the run.
C25_RunEndsInTerminalWrite ==
  [][\A j \in DOMAIN jobs :
       (/\ WroteBuilding(j)
        /\ lastRun'.job = j
        /\ lastRun'.result \in {"completed", "threw"})
         => /\ jobs[j].deploymentId \in DOMAIN deployments'
            /\ deployments'[jobs[j].deploymentId].status \in Terminal]_vars

\* The payloads of one stream kind in the frames that lie whole within the
\* first room bytes of the stream, in stream order.
RECURSIVE PayloadsOf(_, _, _)
PayloadsOf(frames, room, kind) ==
  IF frames = << >> \/ Len(FrameBytes(Head(frames))) > room THEN << >>
  ELSE (IF Head(frames).kind = kind THEN Head(frames).payload ELSE << >>)
         \o PayloadsOf(Tail(frames), room - Len(FrameBytes(Head(frames))), kind)

\* C26: demultiplexing a well-formed log stream puts every payload of kind 1
\* into stdout and every payload of kind 2 into stderr, in stream order, and
\* no header byte into either, for every frame sequence, a single frame with
\* an empty payload and a stream cut short within a frame included.
C26_DemuxSeparatesStreams ==
  logRead.pc = "done" =>
    /\ join(logRead.stdout) =
         toStringUtf8(PayloadsOf(logRead.frames, Len(logRead.buf), 1))
    /\ join(logRead.stderr) =
         toStringUtf8(PayloadsOf(logRead.frames, Len(logRead.buf), 2))

\* The deployments that hold the slug of their project as subdomain: the rows
\* the reverse proxy routes the host name <slug> to.
HoldsSubdomain(d) ==
  deployments[d].subdomain = ProjectTable[deployments[d].projectId].slug

\* C27: in every reachable state, a deployment of project P that holds
\* subdomain = P.slug has as containerPort the host port bound by the live
\* container dropdeploy-<P.slug>, also when two pipelines for P run together
\* and their runContainer calls and DEPLOYED writes interleave.
C27_RoutedPortIsLiveContainer ==
  \A d \in DOMAIN deployments :
    HoldsSubdomain(d) =>
      /\ ContainerLive(deployments[d].projectId)
      /\ containers[deployments[d].projectId].name =
           containerNameOf(ProjectTable[deployments[d].projectId].slug)
      /\ containers[deployments[d].projectId].hostPort = deployments[d].containerPort

\* The deployments of the project of deployment d that are DEPLOYED and hold
\* the slug while d is another row: what the project serves during and
\* after a run for d.
Served(d) ==
  {e \in DOMAIN deployments \ {d} :
     /\ deployments[e].projectId = deployments[d].projectId
     /\ deployments[e].status = "DEPLOYED"}

\* C28: a failed redeploy does not take down the running application: when a
\* buildAndDeploy run for project P has ended with its row FAILED, an earlier
\* DEPLOYED deployment of P still holds subdomain = slug and its containerPort
\* is the host port of the container dropdeploy-<slug>, which is running.
C28_FailedRedeployKeepsApplication ==
  (/\ lastRun.result = "threw"
   /\ jobs[lastRun.job].deploymentId \in DOMAIN deployments
   /\ deployments[jobs[lastRun.job].deploymentId].status = "FAILED") =>
     \A e \in Served(jobs[lastRun.job].deploymentId) :
       /\ HoldsSubdomain(e)
       /\ ContainerLive(deployments[e].projectId)
       /\ containers[deployments[e].projectId].hostPort = deployments[e].containerPort

\* C29: every program that executeCommand causes to run inside the container
\* is on the allow-list: no accepted command string, whatever follows its
\* first token (';', '&&', '|', a command substitution), makes /bin/sh -c
\* start a program that is not allow-listed.
C29_OnlyAllowedProgramsRun ==
  terminal.via = "executeCommand" => ProgramsRun \subseteq ALLOWED_COMMANDS

\* C30: createDeployment is all-or-nothing toward the caller: a call that
\* throws (NotFound, or a queue error that is not a connection error) leaves
\* no new Deployment row, and a row is created without a job only by a call
\* that returns it (after a connection error).
C30_CreateAllOrNothing ==
  [][/\ lastCreate'.result \in {"NotFound", "threw"} =>
          /\ DOMAIN deployments' = DOMAIN deployments
          /\ nextId' = nextId
     /\ (nextId' # nextId /\ Len(jobs') = Len(jobs)) => lastCreate'.result = "returned"]_vars

====
